---- MODULE Spec2Model ----
(***************************************************************************)
(* Parametric insurance contract (programs/insurance-contract/src/lib.rs). *)
(* One policy account, the one at the address derived from the seeds       *)
(* (Authority, Holder), its token accounts, and the six instructions.      *)
(* Every instruction is one action: account validation (the #[account]     *)
(* constraints), the handler, the token transfer it invokes, and the       *)
(* runtime's rollback when the instruction returns an error.               *)
(***************************************************************************)
EXTENDS Integers, Sequences, FiniteSets, TLC

\* ---------------------------------------------------------------- bounds
MaxTime == 1
MaxAmount == 2

\* ------------------------------------------------------------- the world
\* The identities that can sign a transaction.
Ids == {"insurer", "holder", "mallory"}
\* The pair whose program-derived address is the policy account followed here.
Authority == "insurer"
Holder == "holder"
\* The program-derived address of the policy account: the authority of the
\* outbound transfers.
PolicyPda == "policy_pda"

\* Token accounts a caller can pass, and the owner recorded in each.
TokenAccounts == {"holder_tokens", "pool_tokens", "insurer_tokens"}
TokenOwner(a) ==
    CASE a = "holder_tokens" -> Holder
      [] a = "pool_tokens" -> PolicyPda
      [] a = "insurer_tokens" -> Authority

\* Price feed accounts, and an account that is no price feed.
Feeds == {"feed_a", "feed_b"}
OracleAccounts == Feeds \cup {"not_a_feed"}
Prices == -2 .. 2
Confs == {0, 3}
\* What a feed account holds at the moment it is read: a price that is not
\* trading (get_current_price returns None), or a current price.
NotTrading == [trading |-> FALSE, price |-> 0, conf |-> 0]
Readings == {NotTrading} \cup [price : Prices, conf : Confs, trading : {TRUE}]

Thresholds == {-1, 0, 1}
\* The premium is the smallest amount; the coverage is it or more, up to what
\* a token account starts with.
Premiums == {1}
Coverages == 1 .. MaxAmount
\* A policy expires at a tick of the clock.
Expiries == 1 .. MaxTime
\* The bump find_program_address returns for the seeds, and one that is not it.
CanonicalBump == 255
Bumps == {254, 255}

\* Option<T>
None == << >>
Some(v) == << v >>

PolicyStatus == {"Active", "Purchased", "TriggeredPayout", "PaidOut",
                 "Cancelled", "Expired"}
\* The policy account before `init` has created it.
NoPolicy == [status |-> "Uninitialized"]

Ok == "Ok"

VARIABLES
    policy,     \* the InsurancePolicy account, or NoPolicy
    balance,    \* amount of each token account
    now,        \* Clock::get()?.unix_timestamp
    last,       \* the last instruction: its inputs, its outcome, the state before it
    fired,      \* whether some check_trigger_conditions call found the trigger met
    transfers   \* the instructions whose token::transfer has returned Ok: once, more than once

vars == << policy, balance, now, last, fired, transfers >>


\* ------------------------------------------------------- account checks
\* has_one = <field>: the stored field equals the key passed in the slot.
has_one(stored, key) == stored = key

AccountExists(p) == p.status \in PolicyStatus

\* The status each instruction expects of the policy.  The comparison is
\* written twice for each, in the `constraint` of the accounts struct and in
\* the first require! of the handler, with the same variant.
\* Mutant of purchase_policy_status: every unfinished policy can be purchased.
purchase_policy_status_unfinished(status) ==
    status \in {"Active", "Purchased", "TriggeredPayout"}
purchase_policy_status(status) == status = "Active"

check_trigger_conditions_status(status) == status = "Purchased"

\* Mutant of execute_payout_status: a purchased policy is paid out as well.
execute_payout_status_purchased(status) == status \in {"Purchased", "TriggeredPayout"}
execute_payout_status(status) == status = "TriggeredPayout"

\* Mutant of cancel_policy_status: every policy past its purchase is cancellable.
cancel_policy_status_not_active(status) == status # "Active"
cancel_policy_status(status) == status = "Purchased"

\* Mutant of HolderAccounts: the has_one constraint is missing.
HolderAccounts_no_has_one(p, key, statusOk) ==
    IF ~AccountExists(p) THEN "AccountNotInitialized"
    ELSE IF ~statusOk THEN "ConstraintRaw"
    ELSE Ok
\* The validation of PurchasePolicy and CancelPolicy: the policy account, then
\* its constraints in the order has_one, constraint.  `key` is the key in the
\* Signer slot: an instruction whose signer slot holds a key that has not
\* signed is no call by that identity, so the caller is the key that signed.
HolderAccounts(p, key, statusOk) ==
    IF ~AccountExists(p) THEN "AccountNotInitialized"
    ELSE IF ~has_one(p.policy_holder, key) THEN "ConstraintHasOne"
    ELSE IF ~statusOk THEN "ConstraintRaw"
    ELSE Ok

\* The validation of CheckTriggerConditions, ExecutePayout and UpdateOracle.
AuthorityAccounts(p, key, statusOk) ==
    IF ~AccountExists(p) THEN "AccountNotInitialized"
    ELSE IF ~has_one(p.authority, key) THEN "ConstraintHasOne"
    ELSE IF ~statusOk THEN "ConstraintRaw"
    ELSE Ok

\* Mutant of InitializeAccounts: `init` creates the account over an existing one.
InitializeAccounts_reinit(p, authority, policy_holder) ==
    IF << authority, policy_holder >> # << Authority, Holder >>
        THEN "ConstraintSeeds"
    ELSE Ok
\* The validation of Initialize for the policy account followed here: the
\* seeds of the account, and `init`, which creates the account
\* and fails when it exists.
InitializeAccounts(p, authority, policy_holder) ==
    IF << authority, policy_holder >> # << Authority, Holder >>
        THEN "ConstraintSeeds"
    ELSE IF AccountExists(p) THEN "AccountAlreadyInUse"
    ELSE Ok

\* ---------------------------------------------------------- the outcome
Result(err, p, bal, f) == [err |-> err, policy |-> p, balance |-> bal, fired |-> f]

\* token::transfer(cpi_ctx, amount): the token program's checks in its order,
\* then the movement; a transfer of an account to itself moves nothing.
token_transfer(bal, from, to, authority, amount) ==
    IF bal[from] < amount THEN [err |-> "InsufficientFunds", balance |-> bal]
    ELSE IF TokenOwner(from) # authority THEN [err |-> "OwnerMismatch", balance |-> bal]
    ELSE IF from = to THEN [err |-> Ok, balance |-> bal]
    ELSE [err |-> Ok,
          balance |-> [bal EXCEPT ![from] = @ - amount, ![to] = @ + amount]]

\* CpiContext::new_with_signer(.., signer): the runtime signs for the policy
\* account only when the seeds, with the stored bump, derive its address.
signer_seeds_valid(p) == p.bump = CanonicalBump

pda_transfer(p, bal, from, to, amount) ==
    IF ~signer_seeds_valid(p) THEN [err |-> "PrivilegeEscalation", balance |-> bal]
    ELSE token_transfer(bal, from, to, PolicyPda, amount)

\* ------------------------------------------------------------- handlers
\* Rust's i64 division truncates toward zero.
TruncDiv(a, b) ==
    IF (a >= 0) = (b > 0) THEN (IF a >= 0 THEN a ELSE -a) \div (IF b > 0 THEN b ELSE -b)
    ELSE -((IF a >= 0 THEN a ELSE -a) \div (IF b > 0 THEN b ELSE -b))

\* Mutant of trigger_condition_type: a threshold of zero selects VolatilityAbove.
trigger_condition_type_volatility(p) ==
    IF p.trigger_threshold > 0 THEN "PriceAbove"
    ELSE IF p.trigger_threshold = 0 THEN "VolatilityAbove"
    ELSE "PriceBelow"
\* InsurancePolicy::trigger_condition_type
trigger_condition_type(p) ==
    IF p.trigger_threshold > 0 THEN "PriceAbove" ELSE "PriceBelow"

\* The division of the VolatilityAbove arm panics on a price of zero.
trigger_panics(p, price) ==
    trigger_condition_type(p) = "VolatilityAbove" /\ price = 0

\* Mutant of trigger_met: the comparisons include the threshold itself.
trigger_met_inclusive(p, price, conf) ==
    CASE trigger_condition_type(p) = "PriceAbove" -> price >= p.trigger_threshold
      [] trigger_condition_type(p) = "PriceBelow" -> price <= p.trigger_threshold
      [] trigger_condition_type(p) = "VolatilityAbove" ->
            TruncDiv(conf * 100, price) >= p.trigger_threshold
\* The match of check_trigger_conditions.
trigger_met(p, price, conf) ==
    CASE trigger_condition_type(p) = "PriceAbove" -> price > p.trigger_threshold
      [] trigger_condition_type(p) = "PriceBelow" -> price < p.trigger_threshold
      [] trigger_condition_type(p) = "VolatilityAbove" ->
            TruncDiv(conf * 100, price) > p.trigger_threshold

initialize(p, bal, f, t, bump, oracle_address, trigger_threshold, coverage_amount, premium_amount, expiry_timestamp) ==
    Result(Ok,
           [authority |-> Authority,
            policy_holder |-> Holder,
            oracle_address |-> oracle_address,
            trigger_threshold |-> trigger_threshold,
            coverage_amount |-> coverage_amount,
            premium_amount |-> premium_amount,
            expiry_timestamp |-> expiry_timestamp,
            created_timestamp |-> t,
            purchased_timestamp |-> None,
            triggered_timestamp |-> None,
            payout_timestamp |-> None,
            cancelled_timestamp |-> None,
            trigger_price |-> None,
            status |-> "Active",
            bump |-> bump],
           bal, f)

\* Mutant of purchase_policy: the expiry is not checked.
purchase_policy_no_expiry(p, bal, f, t, from, to) ==
    IF ~purchase_policy_status(p.status) THEN Result("PolicyNotActive", p, bal, f)
    ELSE LET tr == token_transfer(bal, from, to, p.policy_holder, p.premium_amount)
         IN  IF tr.err # Ok THEN Result(tr.err, p, bal, f)
             ELSE Result(Ok,
                         [p EXCEPT !.status = "Purchased",
                                   !.purchased_timestamp = Some(t)],
                         tr.balance, f)
purchase_policy(p, bal, f, t, from, to) ==
    IF ~purchase_policy_status(p.status) THEN Result("PolicyNotActive", p, bal, f)
    ELSE IF ~(t < p.expiry_timestamp) THEN Result("PolicyExpired", p, bal, f)
    ELSE LET tr == token_transfer(bal, from, to, p.policy_holder, p.premium_amount)
         IN  IF tr.err # Ok THEN Result(tr.err, p, bal, f)
             ELSE Result(Ok,
                         [p EXCEPT !.status = "Purchased",
                                   !.purchased_timestamp = Some(t)],
                         tr.balance, f)

\* Mutant of check_trigger_conditions: a trigger that is met stores no price.
check_trigger_conditions_no_price(p, bal, f, t, reading) ==
    IF ~check_trigger_conditions_status(p.status) THEN Result("PolicyNotPurchased", p, bal, f)
    ELSE IF ~(t < p.expiry_timestamp) THEN Result("PolicyExpired", p, bal, f)
    ELSE IF reading = None THEN Result("PythError", p, bal, f)
    ELSE IF ~reading[1].trading THEN Result("Panic", p, bal, f)
    ELSE LET price == reading[1].price
         IN  IF trigger_panics(p, price) THEN Result("Panic", p, bal, f)
             ELSE IF trigger_met(p, price, reading[1].conf)
             THEN Result(Ok,
                         [p EXCEPT !.status = "TriggeredPayout",
                                   !.triggered_timestamp = Some(t)],
                         bal, TRUE)
             ELSE Result(Ok, p, bal, f)
\* `reading` is what the account passed as oracle_account holds, or None
\* when it is no price feed.
check_trigger_conditions(p, bal, f, t, reading) ==
    IF ~check_trigger_conditions_status(p.status) THEN Result("PolicyNotPurchased", p, bal, f)
    ELSE IF ~(t < p.expiry_timestamp) THEN Result("PolicyExpired", p, bal, f)
    ELSE IF reading = None THEN Result("PythError", p, bal, f)
    ELSE IF ~reading[1].trading THEN Result("Panic", p, bal, f)
    ELSE LET price == reading[1].price
         IN  IF trigger_panics(p, price) THEN Result("Panic", p, bal, f)
             ELSE IF trigger_met(p, price, reading[1].conf)
             THEN Result(Ok,
                         [p EXCEPT !.status = "TriggeredPayout",
                                   !.triggered_timestamp = Some(t),
                                   !.trigger_price = Some(price)],
                         bal, TRUE)
             ELSE Result(Ok, p, bal, f)

\* Mutant of execute_payout: the payout leaves the status as it is.
execute_payout_keeps_status(p, bal, f, t, from, to) ==
    IF ~execute_payout_status(p.status) THEN Result("PayoutNotTriggered", p, bal, f)
    ELSE LET tr == pda_transfer(p, bal, from, to, p.coverage_amount)
         IN  IF tr.err # Ok THEN Result(tr.err, p, bal, f)
             ELSE Result(Ok, [p EXCEPT !.payout_timestamp = Some(t)], tr.balance, f)
execute_payout(p, bal, f, t, from, to) ==
    IF ~execute_payout_status(p.status) THEN Result("PayoutNotTriggered", p, bal, f)
    ELSE LET tr == pda_transfer(p, bal, from, to, p.coverage_amount)
         IN  IF tr.err # Ok THEN Result(tr.err, p, bal, f)
             ELSE Result(Ok,
                         [p EXCEPT !.status = "PaidOut",
                                   !.payout_timestamp = Some(t)],
                         tr.balance, f)

cancel_policy(p, bal, f, t, from, to) ==
    IF ~cancel_policy_status(p.status) THEN Result("PolicyCannotBeCancelled", p, bal, f)
    ELSE IF ~(t < p.expiry_timestamp) THEN Result("PolicyExpired", p, bal, f)
    ELSE LET refund_amount == p.premium_amount
             tr == pda_transfer(p, bal, from, to, refund_amount)
         IN  IF tr.err # Ok THEN Result(tr.err, p, bal, f)
             ELSE Result(Ok,
                         [p EXCEPT !.status = "Cancelled",
                                   !.cancelled_timestamp = Some(t)],
                         tr.balance, f)

\* Mutant of update_oracle: the price of the trigger is forgotten as well.
update_oracle_clears_price(p, bal, f, new_oracle_address) ==
    Result(Ok, [p EXCEPT !.oracle_address = new_oracle_address,
                         !.trigger_price = None], bal, f)
update_oracle(p, bal, f, new_oracle_address) ==
    Result(Ok, [p EXCEPT !.oracle_address = new_oracle_address], bal, f)

\* An instruction: the accounts are validated, then the handler runs; when
\* either returns an error the runtime discards every change.
Instruction(accountsErr, handled, p, bal, f) ==
    IF accountsErr # Ok THEN Result(accountsErr, p, bal, f)
    ELSE IF handled.err # Ok THEN Result(handled.err, p, bal, f)
    ELSE handled

\* -------------------------------------------------------------- actions
NoAccount == "-"
NoCall ==
    [op |-> "none", caller |-> "-", err |-> "-", price |-> None,
     from |-> NoAccount, to |-> NoAccount, args |-> None, again |-> FALSE,
     prePolicy |-> NoPolicy, preBalance |-> [a \in TokenAccounts |-> 0]]

\* The record of an instruction: who sent it, what it was given (the price is
\* the one the oracle account yields, if it yields one; args are the
\* instruction's arguments, or the account in its oracle_account slot), how it
\* ended, the state it started from, and whether it repeats the instruction
\* before it (the same instruction from the same caller) after that one
\* succeeded.
Call(op, caller, r, price, from, to, args) ==
    [op |-> op, caller |-> caller, err |-> r.err, price |-> price,
     from |-> from, to |-> to, args |-> args,
     again |-> (last.op = op /\ last.caller = caller /\ last.err = Ok),
     prePolicy |-> policy, preBalance |-> balance]

\* The instructions that end with a token::transfer, and the note of one
\* that has returned Ok.
TransferOps == {"purchase_policy", "execute_payout", "cancel_policy"}
NoTransfers == [once |-> {}, more |-> {}]
Transferred(tr, call) ==
    IF call.op \in TransferOps /\ call.err = Ok
    THEN [once |-> tr.once \cup {call.op},
          more |-> tr.more \cup (tr.once \cap {call.op})]
    ELSE tr

Apply(r, call) ==
    /\ policy' = r.policy
    /\ balance' = r.balance
    /\ fired' = r.fired
    /\ last' = call
    /\ transfers' = Transferred(transfers, call)
    /\ UNCHANGED now

\* The holder's account and the pool start empty or funded; the insurer's own
\* account starts empty so that what reaches it is seen.
Init ==
    /\ policy = NoPolicy
    /\ balance \in {b \in [TokenAccounts -> {0, MaxAmount}] : b["insurer_tokens"] = 0}
    /\ now = 0
    /\ last = NoCall
    /\ fired = FALSE
    /\ transfers = NoTransfers

\* Mutant of Tick: the clock moves to any other value, an earlier one included.
Tick_backwards ==
    /\ now' \in (0 .. MaxTime) \ {now}
    /\ last' = NoCall
    /\ UNCHANGED << policy, balance, fired, transfers >>
\* The cluster's clock moves on.
Tick ==
    /\ now < MaxTime
    /\ now' = now + 1
    /\ last' = NoCall
    /\ UNCHANGED << policy, balance, fired, transfers >>

\* An instruction whose accounts fail validation never reaches its handler.
Rejected(op, caller, err) ==
    LET r == Instruction(err, Result(Ok, policy, balance, fired), policy, balance, fired)
    IN  Apply(r, Call(op, caller, r, None, NoAccount, NoAccount, None))

Initialize ==
    \E caller \in Ids, policy_holder \in Ids :
        LET accounts == InitializeAccounts(policy, caller, policy_holder)
        IN  IF accounts # Ok THEN Rejected("initialize", caller, accounts)
            ELSE \E bump \in Bumps, oracle_address \in Feeds,
                    trigger_threshold \in Thresholds, coverage_amount \in Coverages,
                    premium_amount \in Premiums, expiry_timestamp \in Expiries :
                    LET r == Instruction(accounts,
                                initialize(policy, balance, fired, now, bump,
                                           oracle_address, trigger_threshold,
                                           coverage_amount, premium_amount,
                                           expiry_timestamp),
                                policy, balance, fired)
                    IN  Apply(r, Call("initialize", caller, r, None, NoAccount, NoAccount,
                                      << bump, oracle_address, trigger_threshold,
                                         coverage_amount, premium_amount,
                                         expiry_timestamp >>))

PurchasePolicy ==
    \E caller \in Ids :
        LET accounts == HolderAccounts(policy, caller,
                                       purchase_policy_status(policy.status))
        IN  IF accounts # Ok THEN Rejected("purchase_policy", caller, accounts)
            ELSE \E from \in TokenAccounts, to \in TokenAccounts :
                    LET r == Instruction(accounts,
                                purchase_policy(policy, balance, fired, now, from, to),
                                policy, balance, fired)
                    IN  Apply(r, Call("purchase_policy", caller, r, None, from, to, None))

CheckTriggerConditions ==
    \E caller \in Ids :
        LET accounts == AuthorityAccounts(policy, caller,
                                          check_trigger_conditions_status(policy.status))
        IN  IF accounts # Ok THEN Rejected("check_trigger_conditions", caller, accounts)
            ELSE \E oracle_account \in OracleAccounts :
                 \E held \in IF oracle_account \in Feeds THEN Readings ELSE {NotTrading} :
                    LET reading == IF oracle_account \in Feeds THEN Some(held) ELSE None
                        r == Instruction(accounts,
                                check_trigger_conditions(policy, balance, fired, now,
                                                         reading),
                                policy, balance, fired)
                    IN  Apply(r, Call("check_trigger_conditions", caller, r,
                                      IF reading = None \/ ~held.trading THEN None
                                      ELSE Some(held.price),
                                      NoAccount, NoAccount, Some(oracle_account)))

ExecutePayout ==
    \E caller \in Ids :
        LET accounts == AuthorityAccounts(policy, caller,
                                          execute_payout_status(policy.status))
        IN  IF accounts # Ok THEN Rejected("execute_payout", caller, accounts)
            ELSE \E from \in TokenAccounts, to \in TokenAccounts :
                    LET r == Instruction(accounts,
                                execute_payout(policy, balance, fired, now, from, to),
                                policy, balance, fired)
                    IN  Apply(r, Call("execute_payout", caller, r, None, from, to, None))

CancelPolicy ==
    \E caller \in Ids :
        LET accounts == HolderAccounts(policy, caller,
                                       cancel_policy_status(policy.status))
        IN  IF accounts # Ok THEN Rejected("cancel_policy", caller, accounts)
            ELSE \E from \in TokenAccounts, to \in TokenAccounts :
                    LET r == Instruction(accounts,
                                cancel_policy(policy, balance, fired, now, from, to),
                                policy, balance, fired)
                    IN  Apply(r, Call("cancel_policy", caller, r, None, from, to, None))

UpdateOracle ==
    \E caller \in Ids :
        LET accounts == AuthorityAccounts(policy, caller, TRUE)
        IN  IF accounts # Ok THEN Rejected("update_oracle", caller, accounts)
            ELSE \E new_oracle_address \in Feeds :
                    LET r == Instruction(accounts,
                                update_oracle(policy, balance, fired, new_oracle_address),
                                policy, balance, fired)
                    IN  Apply(r, Call("update_oracle", caller, r, None, NoAccount, NoAccount,
                                      Some(new_oracle_address)))

Next ==
    \/ Tick
    \/ Initialize
    \/ PurchasePolicy
    \/ CheckTriggerConditions
    \/ ExecutePayout
    \/ CancelPolicy
    \/ UpdateOracle

Spec == Init /\ [][Next]_vars

\* ------------------------------------------------------------ the claims
Pre == last.prePolicy
PreBalance == last.preBalance
Called(op) == last.op = op
Succeeded == last.err = Ok
NothingChanged == policy = Pre /\ balance = PreBalance

HolderOps == {"purchase_policy", "cancel_policy"}
AuthorityOps == {"check_trigger_conditions", "execute_payout", "update_oracle"}
TimedOps == {"purchase_policy", "check_trigger_conditions", "cancel_policy"}
Transitions == HolderOps \cup AuthorityOps
Terminal == {"PaidOut", "Cancelled", "Expired"}
NonTerminal == {"Active", "Purchased", "TriggeredPayout"}

\* The identity an instruction asks of its caller, and the status it expects.
Required(op, p) == IF op \in HolderOps THEN p.policy_holder ELSE p.authority
Expected(op) ==
    CASE op = "purchase_policy" -> {"Active"}
      [] op = "check_trigger_conditions" -> {"Purchased"}
      [] op = "cancel_policy" -> {"Purchased"}
      [] op = "execute_payout" -> {"TriggeredPayout"}
      [] op = "update_oracle" -> PolicyStatus

\* The failure of an identity check: the has_one constraint of the accounts.
Unauthorized == {"ConstraintHasOne"}
\* The failure of a status check: the constraint of the accounts, or the
\* require! of the handler behind it.
StatusPreconditionFailed ==
    {"ConstraintRaw", "PolicyNotActive", "PolicyNotPurchased",
     "PayoutNotTriggered", "PolicyCannotBeCancelled"}

Edges ==
    {<< "Active", "Purchased" >>, << "Purchased", "TriggeredPayout" >>,
     << "TriggeredPayout", "PaidOut" >>, << "Purchased", "Cancelled" >>}

\* The trigger predicate derived from the sign of the threshold.
Satisfies(threshold, price) ==
    \/ threshold > 0 /\ price > threshold
    \/ threshold <= 0 /\ price < threshold

\* C1: every change of the status of an existing policy, by any instruction
\* of any caller, is one of the edges Active->Purchased,
\* Purchased->TriggeredPayout, TriggeredPayout->PaidOut, Purchased->Cancelled;
\* an existing policy never ceases to exist.
C1_StatusEdges ==
    [][AccountExists(policy) =>
          /\ AccountExists(policy')
          /\ \/ policy'.status = policy.status
             \/ << policy.status, policy'.status >> \in Edges]_vars
\* The last edge of the chain has been taken.
C1_Witness ==
    /\ Called("execute_payout") /\ Succeeded
    /\ Pre.status = "TriggeredPayout" /\ policy.status = "PaidOut"

\* C2: an instruction that returns an error leaves the record and every
\* balance as they were, and in purchase_policy, execute_payout and
\* cancel_policy the status advances exactly when funds have moved.
C2_AllOrNothing ==
    last.op # "none" =>
        /\ ~Succeeded => NothingChanged
        /\ last.op \in TransferOps /\ AccountExists(Pre) =>
              ((policy.status # Pre.status) <=> (balance # PreBalance))

\* C3: purchase_policy and cancel_policy succeed only for the stored
\* policy_holder, the other three only for the stored authority; a call by
\* anyone else fails the identity check and changes neither the record nor a
\* balance.
C3_Authorized ==
    last.op \in Transitions /\ AccountExists(Pre) =>
        /\ Succeeded => last.caller = Required(last.op, Pre)
        /\ last.caller # Required(last.op, Pre) =>
              last.err \in Unauthorized /\ NothingChanged
\* A stranger has asked for the payout of a triggered policy.
C3_Witness ==
    /\ Called("execute_payout") /\ last.caller = "mallory"
    /\ Pre.status = "TriggeredPayout" /\ last.err \in Unauthorized

\* C4 as stated: on a policy in a non-terminal status, each of the five
\* transitions attempted at now >= expiry_timestamp (by the identity it asks
\* for, in the status it expects) fails with PolicyExpired and changes
\* nothing.
C4_AllExpire ==
    /\ last.op \in Transitions /\ AccountExists(Pre)
    /\ Pre.status \in NonTerminal /\ Pre.status \in Expected(last.op)
    /\ last.caller = Required(last.op, Pre)
    /\ now >= Pre.expiry_timestamp
    => last.err = "PolicyExpired" /\ NothingChanged
\* C4 amended: purchase_policy, check_trigger_conditions and cancel_policy
\* attempted at now >= expiry_timestamp fail and change nothing, with
\* PolicyExpired when the caller is the identity asked for and the policy is
\* in the status the instruction expects.
C4_TimedOpsExpire ==
    last.op \in TimedOps /\ AccountExists(Pre) /\ now >= Pre.expiry_timestamp =>
        /\ ~Succeeded /\ NothingChanged
        /\ Pre.status \in Expected(last.op) /\ last.caller = Required(last.op, Pre)
              => last.err = "PolicyExpired"
\* The holder has asked to cancel a purchased policy at its expiry.
C4_Witness ==
    /\ Called("cancel_policy") /\ Pre.status = "Purchased"
    /\ last.caller = Pre.policy_holder /\ now >= Pre.expiry_timestamp
    /\ last.err = "PolicyExpired"

\* C5: from a terminal status on, no instruction moves funds and the status
\* stays what it is.
C5_TerminalNoFunds ==
    [][policy.status \in Terminal =>
          balance' = balance /\ policy'.status = policy.status]_vars
\* The holder has asked to cancel a cancelled policy whose pool could pay.
C5_Witness ==
    /\ Called("cancel_policy") /\ Pre.status = "Cancelled"
    /\ last.caller = Pre.policy_holder /\ Pre.bump = CanonicalBump
    /\ PreBalance["pool_tokens"] >= Pre.premium_amount

\* C6: funds move only between the pool of the policy and the account of the
\* holder: purchase_policy credits the pool with the premium, execute_payout
\* and cancel_policy debit the pool and credit the holder, and no other
\* account changes.
C6_EscrowOnly ==
    last.op \in TransferOps /\ Succeeded =>
        LET amount == IF Called("execute_payout") THEN Pre.coverage_amount
                      ELSE Pre.premium_amount
            sign == IF Called("purchase_policy") THEN 1 ELSE -1
        IN  /\ balance["insurer_tokens"] = PreBalance["insurer_tokens"]
            /\ balance["pool_tokens"] = PreBalance["pool_tokens"] + sign * amount
            /\ balance["holder_tokens"] = PreBalance["holder_tokens"] - sign * amount

\* C7: a successful purchase_policy followed at once by a successful
\* cancel_policy leaves every balance as it was before the purchase.
C7_RoundTrip ==
    [][/\ last.op = "purchase_policy" /\ last.err = Ok
       /\ last'.op = "cancel_policy" /\ last'.err = Ok
       => balance' = last.preBalance]_vars

\* C8: a policy is paid out only after a check_trigger_conditions call has
\* read a price that satisfies the predicate, and a call that reads a price
\* that does not satisfy it succeeds and leaves the record as it was, in
\* Purchased.
C8_PayoutAfterTrigger ==
    /\ AccountExists(policy) /\ policy.status \in {"TriggeredPayout", "PaidOut"} =>
          /\ fired
          /\ policy.trigger_price # None
          /\ Satisfies(policy.trigger_threshold, policy.trigger_price[1])
    /\ Called("execute_payout") /\ Succeeded => fired /\ Pre.status = "TriggeredPayout"
    /\ /\ Called("check_trigger_conditions") /\ AccountExists(Pre)
       /\ Pre.status = "Purchased" /\ last.caller = Pre.authority
       /\ now < Pre.expiry_timestamp /\ last.price # None
       /\ ~Satisfies(Pre.trigger_threshold, last.price[1])
       => Succeeded /\ policy = Pre /\ policy.status = "Purchased"
\* A payout has been made.
C8_Witness == Called("execute_payout") /\ Succeeded /\ policy.status = "PaidOut"

\* C9: a successful check_trigger_conditions fires exactly when the price
\* satisfies the predicate of the threshold's sign, whatever the confidence;
\* when it fires it sets TriggeredPayout, the time and the price read, and
\* otherwise it changes nothing.
C9_TriggerPredicate ==
    Called("check_trigger_conditions") /\ Succeeded =>
        LET price == last.price[1]
        IN  IF Satisfies(Pre.trigger_threshold, price)
            THEN policy = [Pre EXCEPT !.status = "TriggeredPayout",
                                      !.triggered_timestamp = Some(now),
                                      !.trigger_price = Some(price)]
            ELSE policy = Pre
\* A trigger below a threshold of zero has fired.
C9_Witness ==
    /\ Called("check_trigger_conditions") /\ Succeeded
    /\ Pre.trigger_threshold = 0 /\ policy.status = "TriggeredPayout"

\* C10 as stated: when a transition is repeated at once by the same caller
\* after it succeeded, the repetition fails a status check and moves no
\* funds.
C10_EveryRepeatRejected ==
    last.again /\ last.op \in Transitions =>
        last.err \in StatusPreconditionFailed /\ NothingChanged
\* C10 amended: when purchase_policy, execute_payout, cancel_policy, or a
\* check_trigger_conditions call that fired, is repeated at once by the
\* same caller after it succeeded, the repetition fails a status check and
\* changes nothing.
C10_RepeatRejected ==
    /\ last.again
    /\ \/ last.op \in TransferOps
       \/ Called("check_trigger_conditions") /\ Pre.status = "TriggeredPayout"
    => last.err \in StatusPreconditionFailed /\ NothingChanged
\* A payout has been asked for twice and the pool could have paid twice.
C10_Witness ==
    /\ last.again /\ Called("execute_payout")
    /\ PreBalance["pool_tokens"] >= Pre.coverage_amount

\* C11: every successful transfer moves exactly the stored amount between the
\* holder's account and the pool (purchase_policy: the premium from the
\* holder to the pool; execute_payout: the coverage from the pool to the
\* holder; cancel_policy: the premium from the pool to the holder), so that
\* no instruction changes the sum of the two, and the pool is never negative.
C11_Conservation ==
    /\ balance["pool_tokens"] >= 0
    /\ balance["holder_tokens"] + balance["pool_tokens"]
         = PreBalance["holder_tokens"] + PreBalance["pool_tokens"]
       \/ last.op = "none"
    /\ last.op \in TransferOps /\ Succeeded =>
          LET toPool == CASE Called("purchase_policy") -> Pre.premium_amount
                          [] Called("execute_payout") -> -Pre.coverage_amount
                          [] Called("cancel_policy") -> -Pre.premium_amount
          IN  /\ balance["pool_tokens"] - PreBalance["pool_tokens"] = toPool
              /\ PreBalance["holder_tokens"] - balance["holder_tokens"] = toPool

\* C12: update_oracle called by the authority succeeds whatever the status
\* of the policy, the terminal ones included, stores the address it is given
\* in oracle_address, and leaves every other field of the record and every
\* balance as they were.
C12_UpdateOracleFrame ==
    Called("update_oracle") /\ AccountExists(Pre) /\ last.caller = Pre.authority =>
        /\ Succeeded
        /\ policy = [Pre EXCEPT !.oracle_address = last.args[1]]
        /\ balance = PreBalance
\* The oracle of a paid-out policy has been replaced by another one.
C12_Witness ==
    /\ Called("update_oracle") /\ Succeeded
    /\ Pre.status = "PaidOut" /\ policy.oracle_address # Pre.oracle_address

\* The error kind the handler of an instruction names for a policy that is
\* not in the status it expects.
StatusError(op) ==
    CASE op = "purchase_policy" -> "PolicyNotActive"
      [] op = "check_trigger_conditions" -> "PolicyNotPurchased"
      [] op = "execute_payout" -> "PayoutNotTriggered"
      [] op = "cancel_policy" -> "PolicyCannotBeCancelled"

\* C13: purchase_policy, check_trigger_conditions, execute_payout and
\* cancel_policy, called by the identity they ask for on a policy that is not
\* in the status they expect, fail with their own error kind:
\* PolicyNotActive, PolicyNotPurchased, PayoutNotTriggered,
\* PolicyCannotBeCancelled.
C13_SpecificStatusError ==
    /\ last.op \in Transitions \ {"update_oracle"} /\ AccountExists(Pre)
    /\ last.caller = Required(last.op, Pre)
    /\ Pre.status \notin Expected(last.op)
    => last.err = StatusError(last.op)

\* The optional timestamps of the record.
Stamps ==
    {"purchased_timestamp", "triggered_timestamp", "payout_timestamp",
     "cancelled_timestamp"}
\* A timestamp of the record that is set is the one the last instruction found.
WrittenOnce ==
    AccountExists(Pre) =>
        /\ policy.created_timestamp = Pre.created_timestamp
        /\ \A f \in Stamps : Pre[f] # None => policy[f] = Pre[f]
\* Of two optional timestamps that are both set, the first is the earlier
\* one; it may be the same time unless strictly.
Before(a, b, strictly) ==
    a = None \/ b = None \/ a[1] < b[1] \/ (~strictly /\ a[1] = b[1])
InOrder(p, strictly) ==
    /\ Before(Some(p.created_timestamp), p.purchased_timestamp, strictly)
    /\ Before(p.purchased_timestamp, p.triggered_timestamp, strictly)
    /\ Before(p.purchased_timestamp, p.cancelled_timestamp, strictly)
    /\ Before(p.triggered_timestamp, p.payout_timestamp, strictly)
    /\ Before(p.cancelled_timestamp, p.payout_timestamp, strictly)

C15_InitializeOnce ==
    Called("initialize") =>
        /\ Succeeded =>
              /\ ~AccountExists(Pre)
              /\ last.caller = Authority
              /\ policy =
                   [authority |-> Authority,
                    policy_holder |-> Holder,
                    oracle_address |-> last.args[2],
                    trigger_threshold |-> last.args[3],
                    coverage_amount |-> last.args[4],
                    premium_amount |-> last.args[5],
                    expiry_timestamp |-> last.args[6],
                    created_timestamp |-> now,
                    purchased_timestamp |-> None,
                    triggered_timestamp |-> None,
                    payout_timestamp |-> None,
                    cancelled_timestamp |-> None,
                    trigger_price |-> None,
                    status |-> "Active",
                    bump |-> last.args[1]]
              /\ balance = PreBalance
        /\ AccountExists(Pre) => ~Succeeded /\ NothingChanged
\* The authority has asked to initialize again a policy that is paid out.
C15_Witness ==
    /\ Called("initialize") /\ last.caller = Authority
    /\ Pre.status = "PaidOut" /\ last.err = "AccountAlreadyInUse"

\* C16: check_trigger_conditions evaluates the price of the feed whose
\* address is stored in oracle_address: a call that succeeds has read the
\* account at that address, and a call that presents another account leaves
\* the status of the policy as it was.
C16_StoredFeedOnly ==
    Called("check_trigger_conditions") /\ AccountExists(Pre) =>
        /\ Succeeded => last.args = Some(Pre.oracle_address)
        /\ last.args # Some(Pre.oracle_address) => policy.status = Pre.status

\* A policy that is Purchased at or after its expiry.
Lapsed(p, t) ==
    AccountExists(p) /\ p.status = "Purchased" /\ t >= p.expiry_timestamp
\* No instruction writes Expired, and an instruction that finds the policy
\* lapsed leaves it Purchased with its expiry and leaves every balance; if
\* it is purchase_policy, check_trigger_conditions, cancel_policy or
\* execute_payout it fails.
LapsedForGood ==
    /\ policy.status # "Expired"
    /\ Lapsed(Pre, now) =>
          /\ Lapsed(policy, now)
          /\ balance = PreBalance
          /\ last.op \in TransferOps \cup {"check_trigger_conditions"} => ~Succeeded

\* C17: Expired is never written; a policy that is Purchased at or after its
\* expiry stays so, purchase_policy, check_trigger_conditions, cancel_policy
\* and execute_payout on it fail, no balance changes any more, and the
\* premium that was paid for it is in the pool.
C17_LapsedKeepsPremium ==
    /\ LapsedForGood
    /\ Lapsed(policy, now) => balance["pool_tokens"] >= policy.premium_amount

\* C18: execute_payout by the authority on a policy in TriggeredPayout, from
\* the pool to the holder's account, at any time (at or after the expiry as
\* well): when the pool holds the coverage it succeeds, moves the coverage
\* and sets PaidOut and payout_timestamp = now; when the pool holds less it
\* fails and leaves the policy in TriggeredPayout and the balances as they
\* were.
C18_PayoutPreconditions ==
    /\ Called("execute_payout") /\ AccountExists(Pre)
    /\ Pre.status = "TriggeredPayout" /\ last.caller = Pre.authority
    /\ last.from = "pool_tokens" /\ last.to = "holder_tokens"
    => IF PreBalance["pool_tokens"] >= Pre.coverage_amount
       THEN /\ Succeeded
            /\ policy = [Pre EXCEPT !.status = "PaidOut",
                                    !.payout_timestamp = Some(now)]
            /\ balance = [PreBalance EXCEPT
                              !["pool_tokens"] = @ - Pre.coverage_amount,
                              !["holder_tokens"] = @ + Pre.coverage_amount]
       ELSE ~Succeeded /\ NothingChanged

\* The statuses in which each optional field of the record is present.
PresentIn(f) ==
    CASE f = "purchased_timestamp" ->
             {"Purchased", "TriggeredPayout", "PaidOut", "Cancelled"}
      [] f \in {"triggered_timestamp", "trigger_price"} -> {"TriggeredPayout", "PaidOut"}
      [] f = "payout_timestamp" -> {"PaidOut"}
      [] f = "cancelled_timestamp" -> {"Cancelled"}

\* C19: in every state of an existing policy each optional field is present
\* exactly in its statuses: purchased_timestamp from Purchased on,
\* triggered_timestamp and trigger_price in TriggeredPayout and PaidOut,
\* payout_timestamp in PaidOut, cancelled_timestamp in Cancelled; and
\* cancelled_timestamp and triggered_timestamp are never both present.
C19_OptionalsMatchStatus ==
    AccountExists(policy) =>
        /\ \A f \in Stamps \cup {"trigger_price"} :
              (policy[f] # None) <=> (policy.status \in PresentIn(f))
        /\ policy.cancelled_timestamp = None \/ policy.triggered_timestamp = None
\* A policy is paid out: of its optional fields only cancelled_timestamp is absent.
C19_Witness ==
    /\ policy.status = "PaidOut" /\ policy.cancelled_timestamp = None
    /\ policy.trigger_price # None /\ policy.payout_timestamp # None

\* C20: over the life of a policy the transfer of each of purchase_policy,
\* execute_payout and cancel_policy succeeds at most once, and never those of
\* both cancel_policy and execute_payout; the pool is credited only by a
\* successful purchase_policy, with the premium, and debited only by a
\* successful cancel_policy, with the premium, or a successful
\* execute_payout, with the coverage.
C20_OneInOneOut ==
    /\ transfers.more = {}
    /\ ~({"cancel_policy", "execute_payout"} \subseteq transfers.once)
    /\ balance["pool_tokens"] > PreBalance["pool_tokens"] /\ last.op # "none" =>
          /\ Called("purchase_policy") /\ Succeeded
          /\ balance["pool_tokens"] - PreBalance["pool_tokens"] = Pre.premium_amount
    /\ balance["pool_tokens"] < PreBalance["pool_tokens"] /\ last.op # "none" =>
          /\ last.op \in {"cancel_policy", "execute_payout"} /\ Succeeded
          /\ PreBalance["pool_tokens"] - balance["pool_tokens"]
               = IF Called("cancel_policy") THEN Pre.premium_amount
                 ELSE Pre.coverage_amount
\* The payout of a refunded policy has been asked for, by the authority, from
\* a pool that could pay it.
C20_Witness ==
    /\ Called("execute_payout") /\ "cancel_policy" \in transfers.once
    /\ last.caller = Pre.authority /\ Pre.bump = CanonicalBump
    /\ PreBalance["pool_tokens"] >= Pre.coverage_amount
====
